---- MODULE Spec2Model ----
(***************************************************************************)
(* rig-core/src/embeddings/embeddable.rs: the OneOrMany<T> container and   *)
(* the Embeddable trait with its implementations for common types.         *)
(*                                                                         *)
(* Every function of the file is pure.  The state machine below is a       *)
(* caller of the file: it constructs OneOrMany values, moves them into a   *)
(* Vec<OneOrMany<T>>, merges that vector, and calls embeddable() on domain *)
(* values.  `result` records the last call with its argument and outcome.  *)
(* A Rust panic is an outcome of its own (tag "panic"): the process has    *)
(* aborted and no further call is made.                                    *)
(*                                                                         *)
(* The implementation for serde_json::Value (lines 199-207) is left out:   *)
(* no property below reads it.  Failing items are values of a user type.   *)
(***************************************************************************)
EXTENDS Integers, Sequences, FiniteSets, TLC

VARIABLES
    vec,      \* the Vec<OneOrMany<T>> the caller is assembling (owned values)
    result    \* the last call: [op, arg, out]

vars == <<vec, result>>

---------------------------------------------------------------------------
(* Bounds of the model *)

\* longest Vec<T> handed to OneOrMany::from(Vec<T>)
MaxLen == 3
\* most items held, in total, by the collections of `vec`
MaxAll == 4
\* longest Vec<T> of scalar or user-defined items handed to embeddable()
MaxSeq == 3
\* longest outer Vec of a Vec<Vec<T>> handed to embeddable()
MaxOuter == 2
\* longest inner Vec of a Vec<Vec<T>> handed to embeddable()
MaxInner == 1

\* T of OneOrMany<T>, instantiated at a two-value type
Items == {"a", "b"}

SeqsUpTo(S, n) == UNION {[1..k -> S] : k \in 0..n}

---------------------------------------------------------------------------
(* Outcomes of a call *)

\* a function returning Self returned
Value(c) == [tag |-> "Value", val |-> c]
\* Result::Ok
Ok(c) == [tag |-> "Ok", val |-> c]
\* Result::Err
Err(e) == [tag |-> "Err", err |-> e]
\* panic!(..): the call never returns
Panic(msg) == [tag |-> "panic", msg |-> msg]

---------------------------------------------------------------------------
(* struct OneOrMany<T> { first: T, rest: Vec<T> } *)

OneOrMany(f, r) == [first |-> f, rest |-> r]

\* pub fn first(&self) -> T
first(self) == self.first

\* pub fn rest(&self) -> Vec<T>
rest(self) == self.rest

\* all() with the first item forgotten
all_rest_only(self) == self.rest

\* pub fn all(&self) -> Vec<T>: vec![first] extended by rest
all(self) == <<self.first>> \o self.rest

\* From<T> with the item also pushed to rest
From_T_dup(item) == OneOrMany(item, <<item>>)

\* impl From<T> for OneOrMany<T>
From_T(item) == OneOrMany(item, <<>>)

\* From<Vec<T>> calling iter.next() once more before collecting rest
From_Vec_skip(items) ==
    IF items = <<>>
    THEN Panic("Cannot create OneOrMany with an empty vector.")
    ELSE Value(OneOrMany(Head(items),
                         IF Len(items) >= 2 THEN Tail(Tail(items)) ELSE <<>>))

\* From<Vec<T>> whose iterator is not advanced past the first item
From_Vec_norest(items) ==
    IF items = <<>>
    THEN Panic("Cannot create OneOrMany with an empty vector.")
    ELSE Value(OneOrMany(Head(items), items))

\* impl From<Vec<T>> for OneOrMany<T>: iter.next() is first, the remaining
\* iterator is collected into rest; None panics
From_Vec(items) ==
    IF items = <<>>
    THEN Panic("Cannot create OneOrMany with an empty vector.")
    ELSE Value(OneOrMany(Head(items), Tail(items)))

\* value.into_iter().flat_map(|one_or_many| one_or_many.all()).collect()
RECURSIVE flat_map_all(_)
flat_map_all(value) ==
    IF value = <<>> THEN <<>>
    ELSE all(Head(value)) \o flat_map_all(Tail(value))

\* the merge with the flattened items collected in reverse
RECURSIVE flat_map_all_rev(_)
flat_map_all_rev(value) ==
    IF value = <<>> THEN <<>>
    ELSE flat_map_all_rev(Tail(value)) \o all(Head(value))

From_VecOneOrMany_rev(value) == From_Vec(flat_map_all_rev(value))

\* impl From<Vec<OneOrMany<T>>> for OneOrMany<T>
From_VecOneOrMany(value) == From_Vec(flat_map_all(value))

---------------------------------------------------------------------------
(* to_string() of the primitive types *)

Digit(d) ==
    CASE d = 0 -> "0" [] d = 1 -> "1" [] d = 2 -> "2" [] d = 3 -> "3"
      [] d = 4 -> "4" [] d = 5 -> "5" [] d = 6 -> "6" [] d = 7 -> "7"
      [] d = 8 -> "8" [] d = 9 -> "9"

RECURSIVE NatToString(_)
NatToString(n) ==
    IF n < 10 THEN Digit(n) ELSE NatToString(n \div 10) \o Digit(n % 10)

\* i8, i16, i32, i64, i128: decimal digits, "-" before a negative value
int_to_string(n) == IF n < 0 THEN "-" \o NatToString(-n) ELSE NatToString(n)

\* f32, f64.  A float is [class, neg, halves]: NaN, an infinity, or the
\* finite value (-1)^neg * halves / 2, which Display prints with the
\* shortest digits that round-trip: no ".0" on a whole number
float_to_string(x) ==
    CASE x.class = "nan" -> "NaN"
      [] x.class = "inf" -> (IF x.neg THEN "-inf" ELSE "inf")
      [] x.class = "finite" ->
            (IF x.neg THEN "-" ELSE "")
            \o NatToString(x.halves \div 2)
            \o (IF x.halves % 2 = 1 THEN ".5" ELSE "")

bool_to_string(b) == IF b THEN "true" ELSE "false"

\* a char is its Unicode scalar value; to_string() is the one-char string
char_to_string(c) ==
    CASE c = 48 -> "0" [] c = 97 -> "a" [] c = 120 -> "x"

---------------------------------------------------------------------------
(* trait Embeddable { fn embeddable(&self) -> Result<OneOrMany<String>, Error> } *)
(* A domain value is a record of its type and its payload, the payload under *)
(* a field of its own per type: s, n, x, b, c, r, items.                      *)

\* impl Embeddable for String
embeddable_String(self) == Ok(From_T(self.s))

\* impl Embeddable for i8, i16, i32, i64, i128
embeddable_int(self) == Ok(From_T(int_to_string(self.n)))

\* impl Embeddable for f32, f64
embeddable_float(self) == Ok(From_T(float_to_string(self.x)))

\* impl Embeddable for bool
embeddable_bool(self) == Ok(From_T(bool_to_string(self.b)))

\* impl Embeddable for char
embeddable_char(self) == Ok(From_T(char_to_string(self.c)))

\* a user-defined implementor of the trait: its embeddable() returns the
\* Result the value carries, Ok(fragments) or Err(its own error)
embeddable_Impl(self) == self.r

RECURSIVE embeddable(_)
RECURSIVE collect(_)

\* self.iter().map(|item| item.embeddable()).collect::<Result<Vec<_>, _>>():
\* the items are embedded in order, lazily; the first Err ends the iteration
\* and is the result; a panic of an item's embeddable() unwinds through it
collect(items) ==
    IF items = <<>> THEN [tag |-> "Ok", val |-> <<>>]
    ELSE LET r == embeddable(Head(items)) IN
         IF r.tag # "Ok" THEN r
         ELSE LET t == collect(Tail(items)) IN
              IF t.tag # "Ok" THEN t
              ELSE [tag |-> "Ok", val |-> <<r.val>> \o t.val]

\* the sequence implementation keeping only the first fragment of each item
RECURSIVE firsts(_)
firsts(cs) == IF cs = <<>> THEN <<>> ELSE <<first(Head(cs))>> \o firsts(Tail(cs))

embeddable_Vec_firsts(self) ==
    LET items == collect(self.items) IN
    IF items.tag # "Ok" THEN items
    ELSE LET c == From_Vec(firsts(items.val)) IN
         IF c.tag = "panic" THEN c ELSE Ok(c.val)

\* impl<T: Embeddable> Embeddable for Vec<T>: collect(..)? then
\* Ok(OneOrMany::from(items))
embeddable_Vec(self) ==
    LET items == collect(self.items) IN
    IF items.tag # "Ok" THEN items
    ELSE LET c == From_VecOneOrMany(items.val) IN
         IF c.tag = "panic" THEN c ELSE Ok(c.val)

IntTypes == {"i8", "i16", "i32", "i64", "i128"}
FloatTypes == {"f32", "f64"}

\* the implementation the compiler selects for the value's type
embeddable(self) ==
    CASE self.type = "String" -> embeddable_String(self)
      [] self.type \in IntTypes -> embeddable_int(self)
      [] self.type \in FloatTypes -> embeddable_float(self)
      [] self.type = "bool" -> embeddable_bool(self)
      [] self.type = "char" -> embeddable_char(self)
      [] self.type = "Impl" -> embeddable_Impl(self)
      [] self.type = "Vec" -> embeddable_Vec(self)

---------------------------------------------------------------------------
(* The domain values the caller embeds *)

Strings == {[type |-> "String", s |-> s] : s \in Items}
IntOf(t, n) == [type |-> t, n |-> n]
Ints == {IntOf(t, n) : t \in IntTypes, n \in {-7, 0, 42}} \cup {IntOf("i8", -128)}
Floats ==
    {[type |-> t, x |-> x] : t \in FloatTypes,
                 x \in {[class |-> "finite", neg |-> FALSE, halves |-> 3],
                        [class |-> "finite", neg |-> FALSE, halves |-> 4],
                        [class |-> "finite", neg |-> TRUE, halves |-> 1],
                        [class |-> "nan", neg |-> FALSE, halves |-> 0],
                        [class |-> "inf", neg |-> TRUE, halves |-> 0]}}
Bools == {[type |-> "bool", b |-> b] : b \in BOOLEAN}
Chars == {[type |-> "char", c |-> c] : c \in {48, 120}}
Scalars == Strings \cup Ints \cup Floats \cup Bools \cup Chars

\* user-defined values: two that embed, two that fail with their own error
Impl(r) == [type |-> "Impl", r |-> r]
ImplA == Impl(Ok(OneOrMany("a1", <<"a2">>)))
ImplB == Impl(Ok(OneOrMany("b1", <<>>)))
ImplE1 == Impl(Err("e1"))
ImplE2 == Impl(Err("e2"))
Impls == {ImplA, ImplB, ImplE1, ImplE2}

Vec(items) == [type |-> "Vec", items |-> items]
VecsOf(S, n) == {Vec(s) : s \in SeqsUpTo(S, n)}

\* Vec<T> is homogeneous: one set per element type
Vecs ==
    VecsOf(Strings, MaxSeq)
    \cup VecsOf({IntOf("i32", -7), IntOf("i32", 42)}, MaxSeq)
    \cup VecsOf(Bools, MaxSeq)
    \cup VecsOf(Impls, MaxSeq)
    \cup VecsOf(VecsOf({ImplA, ImplE1}, MaxInner), MaxOuter)

Embeddables == Scalars \cup Impls \cup Vecs

---------------------------------------------------------------------------
(* The caller *)

Returned(out) == out.tag \in {"Value", "Ok"}

Aborted == result.out.tag = "panic"

RECURSIVE TotalLen(_)
TotalLen(cs) == IF cs = <<>> THEN 0 ELSE 1 + Len(Head(cs).rest) + TotalLen(Tail(cs))

CollectionOps == {"From_T", "From_Vec", "From_VecOneOrMany"}

Init ==
    /\ vec = <<>>
    /\ result = [op |-> "start", arg |-> <<>>, out |-> [tag |-> "none"]]

\* OneOrMany::from(item)
CallFromT(item) ==
    /\ ~Aborted
    /\ result' = [op |-> "From_T", arg |-> item, out |-> Value(From_T(item))]
    /\ UNCHANGED vec

\* OneOrMany::from(items), items: Vec<T>
CallFromVec(items) ==
    /\ ~Aborted
    /\ result' = [op |-> "From_Vec", arg |-> items, out |-> From_Vec(items)]
    /\ UNCHANGED vec

\* vec.push(c): the collection just built is moved into the vector
Push ==
    /\ ~Aborted
    /\ result.op \in CollectionOps
    /\ Returned(result.out)
    /\ TotalLen(vec) + Len(all(result.out.val)) <= MaxAll
    /\ vec' = Append(vec, result.out.val)
    /\ result' = [op |-> "push", arg |-> <<>>, out |-> [tag |-> "none"]]

\* OneOrMany::from(vec), vec: Vec<OneOrMany<T>>, which is moved into the call
CallMerge ==
    /\ ~Aborted
    /\ result' = [op |-> "From_VecOneOrMany", arg |-> vec,
                  out |-> From_VecOneOrMany(vec)]
    /\ vec' = <<>>

\* value.embeddable().  It reads its receiver only; the caller embeds
\* between merges, when it holds no pending vector
CallEmbeddable(value) ==
    /\ ~Aborted
    /\ vec = <<>>
    /\ result' = [op |-> "embeddable", arg |-> value, out |-> embeddable(value)]
    /\ UNCHANGED vec

Next ==
    \/ \E item \in Items : CallFromT(item)
    \/ \E items \in SeqsUpTo(Items, MaxLen) : CallFromVec(items)
    \/ Push
    \/ CallMerge
    \/ \E value \in Embeddables : CallEmbeddable(value)

Spec == Init /\ [][Next]_vars

---------------------------------------------------------------------------
(* Properties *)

IsFromT == result.op = "From_T"
IsFromVec == result.op = "From_Vec"
IsMerge == result.op = "From_VecOneOrMany"
IsEmbed == result.op = "embeddable"
IsEmbedVec == IsEmbed /\ result.arg.type = "Vec"

\* cs[1].all() ++ ... ++ cs[n].all(), by position
RECURSIVE ConcatUpTo(_, _)
ConcatUpTo(cs, n) ==
    IF n = 0 THEN <<>>
    ELSE ConcatUpTo(cs, n - 1) \o <<cs[n].first>> \o cs[n].rest
ConcatAll(cs) == ConcatUpTo(cs, Len(cs))

RECURSIVE SumLen(_, _)
SumLen(cs, n) == IF n = 0 THEN 0 ELSE SumLen(cs, n - 1) + 1 + Len(cs[n].rest)

\* C1: building a collection from an empty sequence returns the typed
\* failure EmptyInputError to the caller; it never panics and never yields
\* a collection.
C1_EmptyVecIsTypedError ==
    (IsFromVec /\ result.arg = <<>>) =>
        (result.out.tag = "Err" /\ result.out.err = "EmptyInputError")

\* C2: for every non-empty sequence s, from_sequence(s) succeeds with
\* all() = s (same elements, order and length), first() = s[1] and rest()
\* the remaining elements in order.
C2_FromVecKeepsSequence ==
    (IsFromVec /\ result.arg # <<>>) =>
        /\ result.out.tag = "Value"
        /\ all(result.out.val) = result.arg
        /\ Len(all(result.out.val)) = Len(result.arg)
        /\ first(result.out.val) = result.arg[1]
        /\ rest(result.out.val) = SubSeq(result.arg, 2, Len(result.arg))

C2_Witness ==
    /\ IsFromVec
    /\ Len(result.arg) = 3
    /\ result.arg[1] # result.arg[2]
    /\ result.arg[2] # result.arg[3]
    /\ result.out.tag = "Value"

\* C3: for every non-empty list of collections, merge(list).all() is the
\* concatenation of the collections' all() in the order given, nothing
\* dropped, duplicated or reordered; merge([C1, C2]).all() = C1.all() ++
\* C2.all().
C3_MergeConcatenates ==
    (IsMerge /\ result.arg # <<>>) =>
        /\ result.out.tag = "Value"
        /\ all(result.out.val) = ConcatAll(result.arg)
        /\ Len(all(result.out.val)) = SumLen(result.arg, Len(result.arg))
        /\ Len(result.arg) = 2 =>
               all(result.out.val) = all(result.arg[1]) \o all(result.arg[2])

C3_Witness ==
    /\ IsMerge
    /\ Len(result.arg) = 2
    /\ result.arg[1] = OneOrMany("a", <<"b">>)
    /\ result.arg[2] = OneOrMany("b", <<"a">>)
    /\ result.out.tag = "Value"

Merged(cs) == From_VecOneOrMany(cs).val

\* C4: merge is associative: merge([C1, C2, C3]).all() equals
\* merge([merge([C1, C2]), C3]).all() and merge([C1, merge([C2, C3])]).all().
C4_MergeAssociative ==
    (IsMerge /\ Len(result.arg) = 3) =>
        LET C1 == result.arg[1]
            C2 == result.arg[2]
            C3 == result.arg[3]
        IN  /\ result.out.tag = "Value"
            /\ all(result.out.val) = all(Merged(<<Merged(<<C1, C2>>), C3>>))
            /\ all(result.out.val) = all(Merged(<<C1, Merged(<<C2, C3>>)>>))

C4_Witness ==
    /\ IsMerge
    /\ Len(result.arg) = 3
    /\ result.arg[1] = OneOrMany("a", <<"b">>)
    /\ result.arg[2] = OneOrMany("b", <<>>)
    /\ result.arg[3] = OneOrMany("a", <<>>)
    /\ result.out.tag = "Value"

\* C5: merging a list of zero collections fails with EmptyInputError,
\* returned as a typed value, and produces no collection.
C5_EmptyMergeIsTypedError ==
    (IsMerge /\ result.arg = <<>>) =>
        (result.out.tag = "Err" /\ result.out.err = "EmptyInputError")

Embedded(items) == [i \in 1..Len(items) |-> embeddable(items[i])]

AllEmbed(items) == \A i \in 1..Len(items) : embeddable(items[i]).tag = "Ok"

\* C6: embedding a sequence [E1, ..., En] whose elements all embed yields a
\* collection whose all() is E1.embeddable().all() ++ ... ++
\* En.embeddable().all(), so the fragment count is the sum of the elements'
\* counts; A -> ["a1","a2"], B -> ["b1"] gives ["a1","a2","b1"].
C6_EmbedVecConcatenates ==
    (IsEmbedVec /\ Len(result.arg.items) >= 1 /\ AllEmbed(result.arg.items)) =>
        LET frags == [i \in 1..Len(result.arg.items) |->
                         Embedded(result.arg.items)[i].val]
        IN  /\ result.out.tag = "Ok"
            /\ all(result.out.val) = ConcatAll(frags)
            /\ Len(all(result.out.val)) = SumLen(frags, Len(frags))
            /\ result.arg.items = <<ImplA, ImplB>> =>
                   all(result.out.val) = <<"a1", "a2", "b1">>

C6_Witness ==
    /\ IsEmbedVec
    /\ result.arg.items = <<ImplA, ImplB>>
    /\ result.out.tag = "Ok"

ErrIndexes(items) == {i \in 1..Len(items) : embeddable(items[i]).tag = "Err"}

Lowest(S) == CHOOSE i \in S : \A j \in S : i <= j

\* C7: if at least one element of the sequence fails to embed, the whole
\* call fails with exactly the error of the lowest-index failing element,
\* returned verbatim, and no fragment list is returned.
C7_FailFastFirstError ==
    (IsEmbedVec /\ ErrIndexes(result.arg.items) # {}) =>
        result.out = embeddable(result.arg.items[Lowest(ErrIndexes(result.arg.items))])

\* C7, as far as the code goes: the outcome of the call is the outcome of
\* the lowest-index element that does not embed, an Err or a panic.
FailFastFirstNotOk ==
    IsEmbedVec =>
        LET items == result.arg.items
            bad == {i \in 1..Len(items) : embeddable(items[i]).tag # "Ok"}
        IN  bad # {} => result.out = embeddable(items[Lowest(bad)])

WellFormed(c) ==
    /\ "first" \in DOMAIN c
    /\ all(c) # <<>>
    /\ Len(all(c)) = 1 + Len(rest(c))

\* C8: every collection value that exists has total length >= 1: first is
\* present, all() is never empty and len(all()) = 1 + len(rest()); no
\* operation produces or exposes an empty collection.
C8_NeverEmpty ==
    /\ \A i \in 1..Len(vec) : WellFormed(vec[i])
    /\ Returned(result.out) => WellFormed(result.out.val)
    /\ IsMerge => \A i \in 1..Len(result.arg) : WellFormed(result.arg[i])

C8_Witness ==
    /\ IsEmbedVec
    /\ result.out.tag = "Ok"
    /\ Len(result.arg.items) = 3
    /\ Len(all(result.out.val)) >= 4

\* the textual form of the scalar values embedded
TextOf(v) ==
    CASE v.type = "String" -> v.s
      [] v.type \in IntTypes ->
            (CASE v.n = -128 -> "-128" [] v.n = -7 -> "-7"
               [] v.n = 0 -> "0" [] v.n = 42 -> "42")
      [] v.type \in FloatTypes ->
            (CASE v.x.class = "nan" -> "NaN"
               [] v.x.class = "inf" -> "-inf"
               [] v.x.halves = 3 -> "1.5"
               [] v.x.halves = 4 -> "2"
               [] v.x.halves = 1 -> "-0.5")
      [] v.type = "bool" -> (IF v.b THEN "true" ELSE "false")
      [] v.type = "char" -> (IF v.c = 48 THEN "0" ELSE "x")

\* C9: embedding a primitive scalar never fails and returns a collection of
\* exactly one fragment, the value's textual form (42 yields ["42"]);
\* from_single(x).first() = x and from_single(x).rest() = [] for every x.
C9_ScalarIsOneFragment ==
    /\ (IsEmbed /\ result.arg \in Scalars) =>
          /\ result.out.tag = "Ok"
          /\ first(result.out.val) = TextOf(result.arg)
          /\ rest(result.out.val) = <<>>
          /\ Len(all(result.out.val)) = 1
          /\ all(result.out.val) = <<TextOf(result.arg)>>
    /\ IsFromT =>
          /\ result.out.tag = "Value"
          /\ first(result.out.val) = result.arg
          /\ rest(result.out.val) = <<>>

C9_Witness ==
    /\ IsEmbed
    /\ result.arg = IntOf("i32", 42)
    /\ result.out.tag = "Ok"
    /\ all(result.out.val) = <<"42">>

\* C10: embedding a sequence of any length, zero included, and a nested
\* sequence with an empty inner sequence, ends in success with a non-empty
\* fragment list or in a single propagated failure value; never in a panic
\* or a success carrying an empty list.
C10_TwoOutcomes ==
    IsEmbedVec =>
        \/ result.out.tag = "Ok" /\ all(result.out.val) # <<>>
        \/ result.out.tag = "Err"

====
